---- MODULE Spec2Model ----
(***************************************************************************)
(* Model of the two command-line tools of consistent_images:               *)
(*   create_style_guide.py  (Style Guide Builder)   -> specification Spec  *)
(*   generate_image.py      (Image Generator)       -> specification SpecGen*)
(*                                                                         *)
(* Python strings are sequences of one-character strings.  Texts returned  *)
(* by the external services are one-element sequences holding an opaque    *)
(* token.  None and a raised exception are one-element sequences holding   *)
(* a marker no string can contain.                                          *)
(***************************************************************************)
EXTENDS Integers, Sequences, FiniteSets, TLC

VARIABLES
    pc,           \* position of the running tool
    args,         \* the argparse Namespace
    fs,           \* the files on disk: path -> content
    dirs,         \* the directories created on disk
    calls,        \* external calls issued by the current run, in order
    writes,       \* files written by the current run, in order
    stdout,       \* lines printed by the current run, in order
    runs,         \* number of invocations started so far
    dispatch,     \* the call main() made: flow, name, is_artist
    image_paths,  \* main: image_paths
    idx,          \* main: position of the for loop over image_paths
    analyses,     \* main: analyses
    guide,        \* main / create_style_guide: guide
    filepath,     \* create_style_guide: filepath
    ret,          \* value returned by create_style_guide / generate_image
    style_guide,      \* generate_image: style_guide
    enhanced_prompt,  \* generate_image: enhanced_prompt
    image_url,        \* generate_image: image_url
    image_content,    \* generate_image: image_content
    filename          \* generate_image: filename, or what make_safe_filename raised

vars == <<pc, args, fs, dirs, calls, writes, stdout, runs, dispatch,
          image_paths, idx, analyses, guide, filepath, ret,
          style_guide, enhanced_prompt, image_url, image_content, filename>>

bvars == <<dispatch, image_paths, idx, analyses, guide, filepath>>
gvars == <<style_guide, enhanced_prompt, image_url, image_content, filename>>

----------------------------------------------------------------------------
(* Bounds *)

MaxNameLen == 4      \* longest --artist / --style value
MaxImagesLen == 5    \* longest --images value
MaxRuns == 3         \* invocations of the builder with the same command line
MaxClock == 1        \* datetime.now() ranges over seconds 0..MaxClock
MaxWordLen == 2      \* longest short positional prompt word

----------------------------------------------------------------------------
(* Python values *)

None == <<"<None>">>
Raised == <<"<raise>">>
NameError == <<"<NameError>">>

Truthy(v) == v # None /\ v # <<>>

Min(S) == CHOOSE x \in S : \A y \in S : x <= y

StringsUpTo(alphabet, n) == UNION {[1..k -> alphabet] : k \in 0..n}

RECURSIVE Concat(_)
Concat(ss) == IF ss = <<>> THEN <<>> ELSE Head(ss) \o Concat(Tail(ss))

(* str.lower() on the characters the model draws *)
lower_char(c) == IF c = "A" THEN "a" ELSE c
lower(s) == [i \in 1..Len(s) |-> lower_char(s[i])]

(* str.replace(old, new) for a one-character old *)
RECURSIVE replace(_, _, _)
replace(s, old, new) ==
    IF s = <<>> THEN <<>>
    ELSE (IF Head(s) = old THEN new ELSE <<Head(s)>>) \o replace(Tail(s), old, new)

(* str.strip(chars): drop leading and trailing characters of the set *)
RECURSIVE lstrip(_, _)
lstrip(s, chars) ==
    IF s # <<>> /\ Head(s) \in chars THEN lstrip(Tail(s), chars) ELSE s
RECURSIVE rstrip(_, _)
rstrip(s, chars) ==
    IF s # <<>> /\ s[Len(s)] \in chars THEN rstrip(SubSeq(s, 1, Len(s) - 1), chars) ELSE s
strip(s, chars) == rstrip(lstrip(s, chars), chars)

Whitespace == {" "}

(* str.split(sep) for a one-character sep *)
RECURSIVE split(_, _)
split(s, sep) ==
    IF \E i \in 1..Len(s) : s[i] = sep
    THEN LET i == Min({j \in 1..Len(s) : s[j] = sep})
         IN  <<SubSeq(s, 1, i - 1)>> \o split(SubSeq(s, i + 1, Len(s)), sep)
    ELSE <<s>>

----------------------------------------------------------------------------
(* The file system *)

StyleGuidesDir == <<"s","t","y","l","e","-","g","u","i","d","e","s">>

mkdir(d, path) == d \cup {path}

(* variant of write_file: the file is opened in append mode *)
write_file_append(f, path, content) ==
    [p \in DOMAIN f \cup {path} |->
        IF p # path THEN f[p]
        ELSE IF path \in DOMAIN f THEN f[path] \o content ELSE content]

write_file(f, path, content) ==
    [p \in DOMAIN f \cup {path} |-> IF p = path THEN content ELSE f[p]]

EmptyFs == [p \in {} |-> <<>>]

(* Image files present in the working directory *)
ImageFiles == {<<"a">>}

(* Path(p).exists(): Path('') is the working directory, which exists *)
path_exists(p) == p \in ImageFiles \/ p = <<>>

(* open(p, 'rb') in encode_image: open('') raises FileNotFoundError *)
can_open(p) == p \in ImageFiles

----------------------------------------------------------------------------
(* The external services *)

Texts == {<<"T1">>, <<"T2">>}

(* completion(...) raises, or returns response.choices[0].message.content *)
CompletionOutcomes == Texts \cup {None, Raised}

Call(fn, arg, result) == [fn |-> fn, arg |-> arg, result |-> result]

----------------------------------------------------------------------------
(* create_style_guide.py: pure parts *)

(* variant of slug: the last replace drops the hyphen, .replace("-", "") *)
slug_hyphen_dropped(name) ==
    replace(replace(replace(lower(name), " ", <<"_">>), ".", <<>>), "-", <<>>)

(* the filename-safe name of create_style_guide *)
slug(name) ==
    replace(replace(replace(lower(name), " ", <<"_">>), ".", <<>>), "-", <<"_">>)

guide_path(name) == StyleGuidesDir \o <<"/">> \o slug(name) \o <<".","m","d">>

type_str(is_artist) == IF is_artist THEN "artist" ELSE "artistic style or movement"

(* variant of combined_analyses: labels count from 0, f"## Image {i} Analysis" *)
combined_analyses_from_zero(as) ==
    [i \in 1..Len(as) |-> <<"Image", i - 1, "Analysis", as[i]>>]

(* combined_analyses: analysis i labelled "Image i Analysis", in list order *)
combined_analyses(as) == [i \in 1..Len(as) |-> <<"Image", i, "Analysis", as[i]>>]

(* datetime.now().strftime('%Y%m%d_%H%M%S') at second s of a fixed minute *)
Digit(d) == <<"0","1","2","3","4","5","6","7","8","9">>[d + 1]
strftime(s) ==
    <<"2","0","2","5","0","1","0","1","_","0","0","0","0">>
        \o <<Digit(s \div 10), Digit(s % 10)>>

images_path(s) ==
    StyleGuidesDir \o <<"/","i","m","a","g","e","s","-">> \o strftime(s) \o <<".","m","d">>

(* image_paths = [path.strip() for path in args.images.split(',')] *)
parse_image_paths(images) ==
    LET parts == split(images, ",")
    IN  [i \in 1..Len(parts) |-> strip(parts[i], Whitespace)]

(* variant of generate_style_guide_with_llm: the handler returns "" *)
generate_style_guide_with_llm_empty(r) == IF r = Raised THEN <<>> ELSE r

(* generate_style_guide_with_llm returns the content of the completion r,
   or None when the call raised *)
generate_style_guide_with_llm(r) == IF r = Raised THEN None ELSE r

(* variant of analyze_image_with_llm: the handler returns "" *)
analyze_image_with_llm_empty(image_path, r) ==
    IF ~can_open(image_path) \/ r = Raised THEN <<>> ELSE r

(* analyze_image_with_llm(image_path) returns the content of the completion r,
   or None when encode_image or the call raised *)
analyze_image_with_llm(image_path, r) ==
    IF ~can_open(image_path) \/ r = Raised THEN None ELSE r

(* synthesize_style_guide_from_images returns the content of the completion r,
   or None when the call raised *)
synthesize_style_guide_from_images(r) == IF r = Raised THEN None ELSE r

----------------------------------------------------------------------------
(* create_style_guide.py: main() *)

NameChars == {"A", "a", " ", ".", "-"}
ImagesChars == {"a", "m", ",", " "}

Names == StringsUpTo(NameChars, MaxNameLen)
ImagesValues == StringsUpTo(ImagesChars, MaxImagesLen)

(* the Namespaces parse_args() accepts: exactly one flag of the group given *)
BuilderArgs ==
    {[artist |-> n, style |-> None, images |-> None] : n \in Names}
    \cup {[artist |-> None, style |-> n, images |-> None] : n \in Names}
    \cup {[artist |-> None, style |-> None, images |-> v] : v \in ImagesValues}

NoDispatch == [flow |-> "none", name |-> None, is_artist |-> FALSE]

Init ==
    /\ pc = "main"
    /\ args \in BuilderArgs
    /\ fs = EmptyFs
    /\ dirs = {}
    /\ calls = <<>>
    /\ writes = <<>>
    /\ stdout = <<>>
    /\ runs = 1
    /\ dispatch = NoDispatch
    /\ image_paths = <<>>
    /\ idx = 1
    /\ analyses = <<>>
    /\ guide = None
    /\ filepath = None
    /\ ret = None
    /\ style_guide = None
    /\ enhanced_prompt = None
    /\ image_url = None
    /\ image_content = None
    /\ filename = None

(* if args.images: *)
MainImages ==
    /\ pc = "main"
    /\ Truthy(args.images)
    /\ dispatch' = [flow |-> "images", name |-> None, is_artist |-> FALSE]
    /\ image_paths' = parse_image_paths(args.images)
    /\ stdout' = Append(stdout, <<"Processing images", Len(image_paths')>>)
    /\ analyses' = <<>>
    /\ idx' = 1
    /\ pc' = "loop"
    /\ UNCHANGED <<args, fs, dirs, calls, writes, runs, guide, filepath, ret, gvars>>

(* elif args.artist: create_style_guide(args.artist, is_artist=True) *)
MainArtist ==
    /\ pc = "main"
    /\ ~Truthy(args.images)
    /\ Truthy(args.artist)
    /\ dispatch' = [flow |-> "name", name |-> args.artist, is_artist |-> TRUE]
    /\ pc' = "create_style_guide"
    /\ UNCHANGED <<args, fs, dirs, calls, writes, stdout, runs, image_paths, idx,
                   analyses, guide, filepath, ret, gvars>>

(* else: create_style_guide(args.style, is_artist=False) *)
MainStyle ==
    /\ pc = "main"
    /\ ~Truthy(args.images)
    /\ ~Truthy(args.artist)
    /\ dispatch' = [flow |-> "name", name |-> args.style, is_artist |-> FALSE]
    /\ pc' = "create_style_guide"
    /\ UNCHANGED <<args, fs, dirs, calls, writes, stdout, runs, image_paths, idx,
                   analyses, guide, filepath, ret, gvars>>

(* for image_path in image_paths: if not Path(image_path).exists(): return *)
LoopMissing ==
    /\ pc = "loop"
    /\ idx <= Len(image_paths)
    /\ ~path_exists(image_paths[idx])
    /\ stdout' = Append(stdout, <<"Error: Image file not found", image_paths[idx]>>)
    /\ pc' = "done"
    /\ UNCHANGED <<args, fs, dirs, calls, writes, runs, bvars, ret, gvars>>

(* analysis = analyze_image_with_llm(image_path); if analysis is None: return;
   analyses.append(analysis) *)
LoopAnalyze ==
    /\ pc = "loop"
    /\ idx <= Len(image_paths)
    /\ path_exists(image_paths[idx])
    /\ LET image_path == image_paths[idx]
           finish(analysis, issued) ==
               /\ calls' = calls \o issued
               /\ IF analysis = None
                  THEN /\ stdout' = stdout \o <<<<"Analyzing image", image_path>>,
                                                <<"Error analyzing image", image_path>>,
                                                <<"Failed to analyze", image_path>>>>
                       /\ pc' = "done"
                       /\ UNCHANGED <<analyses, idx>>
                  ELSE /\ stdout' = stdout \o <<<<"Analyzing image", image_path>>,
                                                <<"Analysis complete", image_path>>>>
                       /\ analyses' = Append(analyses, analysis)
                       /\ idx' = idx + 1
                       /\ pc' = "loop"
       IN  IF ~can_open(image_path)
           THEN finish(analyze_image_with_llm(image_path, Raised), <<>>)
           ELSE \E r \in CompletionOutcomes :
                    finish(analyze_image_with_llm(image_path, r),
                           <<Call("completion", <<"analysis", image_path>>, r)>>)
    /\ UNCHANGED <<args, fs, dirs, writes, runs, dispatch, image_paths, guide,
                   filepath, ret, gvars>>

(* guide = synthesize_style_guide_from_images(analyses); if guide is None: return *)
Synthesize ==
    /\ pc = "loop"
    /\ idx > Len(image_paths)
    /\ \E r \in CompletionOutcomes :
        /\ calls' = Append(calls, Call("completion", <<"synthesis", combined_analyses(analyses)>>, r))
        /\ guide' = synthesize_style_guide_from_images(r)
        /\ IF guide' = None
           THEN /\ stdout' = stdout \o <<<<"Synthesizing", Len(analyses)>>,
                                         <<"Error synthesizing style guide">>,
                                         <<"Failed to synthesize style guide">>>>
                /\ pc' = "done"
           ELSE /\ stdout' = stdout \o <<<<"Synthesizing", Len(analyses)>>,
                                         <<"Style guide synthesis complete">>>>
                /\ pc' = "write_images"
    /\ UNCHANGED <<args, fs, dirs, writes, runs, dispatch, image_paths, idx, analyses,
                   filepath, ret, gvars>>

(* mkdir; filepath = f"style-guides/images-{timestamp}.md"; write guide *)
WriteImagesGuide ==
    /\ pc = "write_images"
    /\ dirs' = mkdir(dirs, StyleGuidesDir)
    /\ \E now \in 0..MaxClock : filepath' = images_path(now)
    /\ fs' = write_file(fs, filepath', guide)
    /\ writes' = Append(writes, <<filepath', guide>>)
    /\ stdout' = Append(stdout, <<"Style guide created", filepath'>>)
    /\ pc' = "done"
    /\ UNCHANGED <<args, calls, runs, dispatch, image_paths, idx, analyses, guide, ret, gvars>>

----------------------------------------------------------------------------
(* create_style_guide.py: create_style_guide(name, is_artist) *)

(* Path("style-guides").mkdir(exist_ok=True); filename = name.lower()...;
   name.lower() raises AttributeError when name is None *)
CsgBegin ==
    /\ pc = "create_style_guide"
    /\ dirs' = mkdir(dirs, StyleGuidesDir)
    /\ IF dispatch.name = None
       THEN /\ pc' = "crashed"
            /\ UNCHANGED filepath
       ELSE /\ filepath' = guide_path(dispatch.name)
            /\ pc' = "generate"
    /\ UNCHANGED <<args, fs, calls, writes, stdout, runs, dispatch, image_paths, idx,
                   analyses, guide, ret, gvars>>

(* guide = generate_style_guide_with_llm(name, is_artist, model);
   if guide is None: return None *)
CsgGenerate ==
    /\ pc = "generate"
    /\ \E r \in CompletionOutcomes :
        /\ calls' = Append(calls, Call("completion",
                        <<"guide", dispatch.name, type_str(dispatch.is_artist)>>, r))
        /\ guide' = generate_style_guide_with_llm(r)
        /\ stdout' = stdout \o <<<<"Asking LLM", dispatch.name>>>>
                       \o (IF r = Raised
                           THEN <<<<"Error calling LLM">>, <<"Make sure you have:">>,
                                  <<"1. Installed litellm">>, <<"2. Set your API key">>,
                                  <<"3. Have access to the specified model">>>>
                           ELSE <<>>)
        /\ IF guide' = None
           THEN /\ ret' = None
                /\ pc' = "done"
           ELSE /\ pc' = "write"
                /\ UNCHANGED ret
    /\ UNCHANGED <<args, fs, dirs, writes, runs, dispatch, image_paths, idx, analyses,
                   filepath, gvars>>

(* with open(filepath, 'w') as f: f.write(guide); return filepath *)
CsgWrite ==
    /\ pc = "write"
    /\ fs' = write_file(fs, filepath, guide)
    /\ writes' = Append(writes, <<filepath, guide>>)
    /\ stdout' = Append(stdout, <<"Style guide created", filepath>>)
    /\ ret' = filepath
    /\ pc' = "done"
    /\ UNCHANGED <<args, dirs, calls, runs, bvars, gvars>>

(* the user invokes the tool again with the same command line; the disk is kept *)
Rerun ==
    /\ pc \in {"done", "crashed"}
    /\ runs < MaxRuns
    /\ runs' = runs + 1
    /\ pc' = "main"
    /\ calls' = <<>>
    /\ writes' = <<>>
    /\ stdout' = <<>>
    /\ dispatch' = NoDispatch
    /\ image_paths' = <<>>
    /\ idx' = 1
    /\ analyses' = <<>>
    /\ guide' = None
    /\ filepath' = None
    /\ ret' = None
    /\ UNCHANGED <<args, fs, dirs, gvars>>

Next ==
    \/ MainImages
    \/ MainArtist
    \/ MainStyle
    \/ LoopMissing
    \/ LoopAnalyze
    \/ Synthesize
    \/ WriteImagesGuide
    \/ CsgBegin
    \/ CsgGenerate
    \/ CsgWrite
    \/ Rerun

Spec == Init /\ [][Next]_vars

----------------------------------------------------------------------------
(* generate_image.py: pure parts *)

(* names bound at module level: the imports of lines 9-14 and the functions *)
GeneratorGlobals ==
    {"argparse", "sys", "Path", "completion", "replicate", "requests",
     "load_style_guide", "create_enhanced_prompt", "make_safe_filename",
     "generate_image", "main"}

(* make_safe_filename's default max_length *)
MaxLength == 50

(* [a-z0-9] on the characters the model draws *)
AlnumLower == {"a", "1"}

(* re.sub(r'[^a-z0-9]+', '_', s): every maximal run of other characters
   becomes one underscore: its first character is replaced, the rest dropped *)
re_sub_non_alnum(s) ==
    LET marked == [i \in 1..Len(s) |->
                      IF s[i] \in AlnumLower THEN s[i]
                      ELSE IF i = 1 \/ s[i - 1] \in AlnumLower THEN "_"
                      ELSE ""]
    IN  SelectSeq(marked, LAMBDA c : c # "")

(* the body of make_safe_filename, lines 66-78 *)
safe_name(prompt, max_length) ==
    LET safe == strip(re_sub_non_alnum(strip(lower(prompt), Whitespace)), {"_"})
    IN  IF Len(safe) > max_length
        THEN rstrip(SubSeq(safe, 1, max_length), {"_"})
        ELSE safe

(* make_safe_filename(prompt): line 69 looks the global name re up *)
make_safe_filename(prompt) ==
    IF "re" \notin GeneratorGlobals THEN NameError ELSE safe_name(prompt, MaxLength)

(* ' '.join(args.prompt) *)
RECURSIVE join(_, _)
join(words, sep) ==
    IF words = <<>> THEN <<>>
    ELSE IF Len(words) = 1 THEN words[1]
    ELSE words[1] \o sep \o join(Tail(words), sep)

user_prompt == join(args.prompt, <<" ">>)

(* load_style_guide(filepath): the text, or the exception open() raises *)
FileNotFoundError == <<"<FileNotFoundError>">>
IsADirectoryError == <<"<IsADirectoryError>">>

(* variant of load_style_guide: a missing file reads as the empty text *)
load_style_guide_empty(path) ==
    IF path \in DOMAIN fs THEN fs[path]
    ELSE IF path \in dirs THEN IsADirectoryError
    ELSE <<>>

load_style_guide(path) ==
    IF path \in DOMAIN fs THEN fs[path]
    ELSE IF path \in dirs THEN IsADirectoryError
    ELSE FileNotFoundError

----------------------------------------------------------------------------
(* generate_image.py: main() and generate_image(style_guide_path, prompt) *)

PromptChars == {"A", "1", " ", "!"}

RECURSIVE Repeat(_, _)
Repeat(u, k) == IF k = 0 THEN <<>> ELSE u \o Repeat(u, k - 1)

(* words longer than MaxLength, so that truncation happens *)
LongWords == {Repeat(u, MaxLength + 1) : u \in {<<"A">>, <<"A", "!">>, <<"!", "1">>}}

Words == StringsUpTo(PromptChars, MaxWordLen) \cup LongWords

GuidePath == StyleGuidesDir \o <<"/","x",".","m","d">>

Urls == {<<"U1">>, <<"U2">>}
Bytes == {<<"B1">>, <<"B2">>}

(* replicate.run(...) raises, or returns one URL or a list of URLs *)
ReplicateOutcomes ==
    {[kind |-> "raise", urls |-> <<>>]}
    \cup {[kind |-> "single", urls |-> <<u>>] : u \in Urls}
    \cup {[kind |-> "list", urls |-> us] : us \in {<<>>, <<<<"U1">>, <<"U2">>>>, <<<<"U2">>>>}}

GenInit ==
    /\ pc = "main"
    /\ args \in {[style_guide |-> p, prompt |-> ws] :
                    p \in {GuidePath, StyleGuidesDir},
                    ws \in [1..1 -> Words] \cup [1..2 -> Words]}
    /\ \/ fs = EmptyFs /\ dirs \in {{}, {StyleGuidesDir}}
       \/ fs \in {write_file(EmptyFs, GuidePath, t) : t \in Texts} /\ dirs = {StyleGuidesDir}
    /\ calls = <<>>
    /\ writes = <<>>
    /\ stdout = <<>>
    /\ runs = 1
    /\ dispatch = NoDispatch
    /\ image_paths = <<>>
    /\ idx = 1
    /\ analyses = <<>>
    /\ guide = None
    /\ filepath = None
    /\ ret = None
    /\ style_guide = None
    /\ enhanced_prompt = None
    /\ image_url = None
    /\ image_content = None
    /\ filename = None

(* style_guide = load_style_guide(style_guide_path) *)
GenLoad ==
    /\ pc = "main"
    /\ LET r == load_style_guide(args.style_guide)
       IN  IF r = FileNotFoundError
           THEN /\ stdout' = stdout \o <<<<"Error: Style guide not found", args.style_guide>>,
                                         <<"Create one first using: python create_style_guide.py">>>>
                /\ pc' = "exit1"
                /\ UNCHANGED style_guide
           ELSE IF r = IsADirectoryError
           THEN /\ pc' = "crashed"
                /\ UNCHANGED <<stdout, style_guide>>
           ELSE /\ style_guide' = r
                /\ pc' = "enhance"
                /\ UNCHANGED stdout
    /\ UNCHANGED <<args, fs, dirs, calls, writes, runs, bvars, ret,
                   enhanced_prompt, image_url, image_content, filename>>

(* enhanced_prompt = create_enhanced_prompt(style_guide, prompt); print it *)
GenEnhance ==
    /\ pc = "enhance"
    /\ \E r \in CompletionOutcomes :
        /\ calls' = Append(calls, Call("completion", <<"enhance", style_guide, user_prompt>>, r))
        /\ IF r = Raised
           THEN /\ pc' = "crashed"
                /\ UNCHANGED <<enhanced_prompt, stdout>>
           ELSE /\ enhanced_prompt' = r
                /\ stdout' = stdout \o <<<<"ENHANCED PROMPT">>, <<r>>>>
                /\ pc' = "replicate"
    /\ UNCHANGED <<args, fs, dirs, writes, runs, bvars, ret,
                   style_guide, image_url, image_content, filename>>

(* output = replicate.run("google/nano-banana", input);
   image_url = output[0] if isinstance(output, list) else output *)
GenReplicate ==
    /\ pc = "replicate"
    /\ \E out \in ReplicateOutcomes :
        /\ calls' = Append(calls, Call("replicate.run", enhanced_prompt, out))
        /\ IF out.kind = "raise" \/ out.urls = <<>>
           THEN /\ pc' = "crashed"
                /\ UNCHANGED <<image_url, stdout>>
           ELSE /\ image_url' = out.urls[1]
                /\ stdout' = Append(stdout, <<"Image URL", image_url'>>)
                /\ pc' = "download"
    /\ UNCHANGED <<args, fs, dirs, writes, runs, bvars, ret,
                   style_guide, enhanced_prompt, image_content, filename>>

(* image_content = requests.get(image_url).content *)
GenDownload ==
    /\ pc = "download"
    /\ \E r \in Bytes \cup {Raised} :
        /\ calls' = Append(calls, Call("requests.get", image_url, r))
        /\ IF r = Raised
           THEN /\ pc' = "crashed"
                /\ UNCHANGED image_content
           ELSE /\ image_content' = r
                /\ pc' = "save"
    /\ UNCHANGED <<args, fs, dirs, writes, stdout, runs, bvars, ret,
                   style_guide, enhanced_prompt, image_url, filename>>

(* filename = make_safe_filename(prompt); with open(filename, "wb") as f:
   f.write(image_content); return filename; main prints it.
   open('') raises FileNotFoundError *)
GenSave ==
    /\ pc = "save"
    /\ filename' = make_safe_filename(user_prompt)
    /\ IF filename' = NameError \/ filename' = <<>>
       THEN /\ pc' = "crashed"
            /\ UNCHANGED <<fs, writes, ret, stdout>>
       ELSE /\ fs' = write_file(fs, filename', image_content)
            /\ writes' = Append(writes, <<filename', image_content>>)
            /\ ret' = filename'
            /\ stdout' = Append(stdout, <<"Image generated", filename'>>)
            /\ pc' = "done"
    /\ UNCHANGED <<args, dirs, calls, runs, bvars,
                   style_guide, enhanced_prompt, image_url, image_content>>

GenNext ==
    \/ GenLoad
    \/ GenEnhance
    \/ GenReplicate
    \/ GenDownload
    \/ GenSave

SpecGen == GenInit /\ [][GenNext]_vars

----------------------------------------------------------------------------
(* Properties of the Style Guide Builder, checked under Spec *)

ImagesFlow == dispatch.flow = "images"
NameFlow == dispatch.flow = "name"

Missing(k) == ~path_exists(image_paths[k])

IsAnalysisCall(c) == c.fn = "completion" /\ c.arg[1] = "analysis"
IsSynthesisCall(c) == c.fn = "completion" /\ c.arg[1] = "synthesis"
NoSynthesisCall == \A i \in 1..Len(calls) : ~IsSynthesisCall(calls[i])

(* C1: in --images mode, a list holding a missing path at any position ends the
   run with no external call issued, style-guides/ not created, no file written *)
C1_MissingPathMeansNoCall ==
    (ImagesFlow /\ pc = "done" /\ \E k \in 1..Len(image_paths) : Missing(k))
        => /\ calls = <<>>
           /\ StyleGuidesDir \notin dirs
           /\ writes = <<>>
           /\ fs = EmptyFs

(* the slug read off the sentence, character by character *)
SlugChar(c, hyphen) ==
    IF c = " " THEN <<"_">>
    ELSE IF c = "." THEN <<>>
    ELSE IF c = "-" THEN hyphen
    ELSE IF c = "A" THEN <<"a">>
    ELSE <<c>>

SlugBy(name, hyphen) == Concat([i \in 1..Len(name) |-> SlugChar(name[i], hyphen)])

PathOfSlug(sl) == StyleGuidesDir \o <<"/">> \o sl \o <<".", "m", "d">>

(* C2 as stated: the output path is style-guides/<slug>.md, slug = the name
   lowercased, spaces to underscores, periods removed, hyphens removed *)
C2_HyphensRemoved ==
    (NameFlow /\ filepath # None) => filepath = PathOfSlug(SlugBy(dispatch.name, <<>>))

(* C2 amended: the output path is style-guides/<slug>.md, slug = the name
   lowercased, spaces to underscores, periods removed, hyphens to underscores *)
C2_HyphensToUnderscores ==
    (NameFlow /\ filepath # None) => filepath = PathOfSlug(SlugBy(dispatch.name, <<"_">>))

C2_Witness ==
    /\ NameFlow
    /\ pc = "done"
    /\ ret = filepath
    /\ {"A", " ", ".", "-"} \subseteq {dispatch.name[i] : i \in 1..Len(dispatch.name)}

LastCallRaised(cs) == cs # <<>> /\ cs[Len(cs)].result = Raised

(* C5: in the name modes, a completion call that raises makes
   generate_style_guide_with_llm return None and create_style_guide return
   None with no file opened or written: the disk is left as it was *)
C5_RaiseWritesNothing ==
    [][(NameFlow /\ LastCallRaised(calls'))
            => /\ guide' = None
               /\ ret' = None
               /\ pc' = "done"
               /\ writes' = <<>>
               /\ fs' = fs]_vars

C5_Witness ==
    /\ NameFlow
    /\ runs = 2
    /\ pc = "done"
    /\ LastCallRaised(calls)
    /\ filepath \in DOMAIN fs
    /\ fs[filepath] \in Texts

(* image k of the list is missing, or its analysis came back None *)
AnalysisFailed(k) ==
    \/ Missing(k)
    \/ ~can_open(image_paths[k])
    \/ k <= Len(calls) /\ IsAnalysisCall(calls[k]) /\ calls[k].result \in {None, Raised}

(* C6: in --images mode the analysis calls follow the input order one by one,
   and at the first image that is missing or whose analysis is None the run
   stops: no later analysis call, no synthesis call, no file written *)
C6_AbortAtFirstFailure ==
    ImagesFlow =>
        /\ \A i \in 1..Len(calls) :
              IsAnalysisCall(calls[i]) =>
                  i <= Len(image_paths) /\ calls[i].arg[2] = image_paths[i]
        /\ \A k \in 1..Len(image_paths) :
              AnalysisFailed(k) =>
                  /\ Len(calls) <= k
                  /\ Missing(k) => Len(calls) < k
                  /\ NoSynthesisCall
                  /\ writes = <<>>
                  /\ idx <= k
                  /\ pc \in {"loop", "done"}

C6_Witness ==
    /\ ImagesFlow
    /\ pc = "done"
    /\ image_paths = <<<<"a">>, <<"a">>, <<"a">>>>
    /\ Len(calls) = 2
    /\ calls[2].result = Raised

AllAnalysed ==
    /\ Len(image_paths) >= 1
    /\ Len(calls) >= Len(image_paths)
    /\ \A i \in 1..Len(image_paths) :
          /\ path_exists(image_paths[i])
          /\ IsAnalysisCall(calls[i])
          /\ calls[i].result \in Texts

(* C8: in --images mode with n >= 1 images whose analyses all succeed, the run
   issues n analysis calls, then one synthesis call over the n analyses
   labelled Image 1..n in input order, and the file it writes holds the
   synthesis result *)
C8_SynthesisAlwaysRuns ==
    (ImagesFlow /\ pc \in {"write_images", "done"} /\ AllAnalysed) =>
        LET n == Len(image_paths)
        IN  /\ Len(calls) = n + 1
            /\ \A i \in 1..n : calls[i].arg = <<"analysis", image_paths[i]>>
            /\ calls[n + 1].arg =
                  <<"synthesis", [i \in 1..n |-> <<"Image", i, "Analysis", calls[i].result>>]>>
            /\ writes # <<>> =>
                  /\ Len(writes) = 1
                  /\ writes[1][2] = calls[n + 1].result
                  /\ fs[writes[1][1]] = calls[n + 1].result
            /\ (pc = "done" /\ calls[n + 1].result \in Texts) => writes # <<>>

C8_Witness ==
    /\ ImagesFlow
    /\ pc = "done"
    /\ Len(image_paths) = 1
    /\ AllAnalysed
    /\ writes # <<>>
    /\ calls[1].result # calls[2].result

(* C9: runs with the same artist name all compute the same output path and
   overwrite it: after a successful run the only file is
   style-guides/<slug>.md and it holds the text the last completion returned *)
C9_SamePathLastTextWins ==
    (NameFlow /\ dispatch.is_artist /\ pc = "done" /\ writes # <<>>) =>
        LET path == PathOfSlug(SlugBy(args.artist, <<"_">>))
        IN  /\ DOMAIN fs = {path}
            /\ fs[path] = calls[Len(calls)].result
            /\ writes = <<<<path, calls[Len(calls)].result>>>>
            /\ ret = path

C9_Witness ==
    /\ NameFlow
    /\ dispatch.is_artist
    /\ runs = 3
    /\ pc = "done"
    /\ writes # <<>>
    /\ fs[filepath] = <<"T2">>

(* C10: the flow that runs is the one of the flag given (--images: image-set
   flow, --artist: name flow with is_artist true, --style: name flow with
   is_artist false), and create_style_guide never gets None as name *)
C10_FlagSelectsFlow ==
    dispatch.flow # "none" =>
        /\ args.images # None => ImagesFlow
        /\ args.artist # None =>
              NameFlow /\ dispatch.is_artist /\ dispatch.name = args.artist
        /\ args.style # None =>
              NameFlow /\ ~dispatch.is_artist /\ dispatch.name = args.style
        /\ NameFlow => dispatch.name # None

----------------------------------------------------------------------------
(* Properties of the Image Generator, checked under SpecGen *)

GenEnded == pc \in {"done", "crashed", "exit1"}

GuideMissing == args.style_guide \notin DOMAIN fs /\ args.style_guide \notin dirs

(* the LLM call, the image-generation call and the download all succeeded *)
AllCallsSucceeded ==
    /\ Len(calls) = 3
    /\ calls[1].result \in Texts
    /\ calls[2].result.kind # "raise" /\ calls[2].result.urls # <<>>
    /\ calls[3].result \in Bytes

(* C3: when the style guide exists and the three calls succeed, generate_image
   ends having written exactly one file, named by the sanitized original
   prompt and holding the downloaded bytes, and returns that name *)
C3_WritesOneFile ==
    (GenEnded /\ AllCallsSucceeded) =>
        /\ writes = <<<<safe_name(user_prompt, MaxLength), calls[3].result>>>>
        /\ ret = safe_name(user_prompt, MaxLength)
        /\ fs[ret] = calls[3].result

(* C4: with a --style-guide path that does not exist, the run prints the
   not-found diagnostic and terminates; no LLM call, no image call, no
   download is ever issued and no file is written *)
C4_MissingGuideStopsRun ==
    GuideMissing =>
        /\ calls = <<>>
        /\ writes = <<>>
        /\ pc \in {"main", "exit1"}
        /\ pc = "exit1" =>
              /\ stdout # <<>>
              /\ stdout[1] = <<"Error: Style guide not found", args.style_guide>>
              /\ style_guide = None

C4_Witness ==
    /\ GuideMissing
    /\ pc = "exit1"
    /\ Len(stdout) = 2

IsSafeFilename(f) ==
    /\ \A i \in 1..Len(f) : f[i] \in AlnumLower \cup {"_"}
    /\ \A i \in 1..(Len(f) - 1) : ~(f[i] = "_" /\ f[i + 1] = "_")
    /\ f # <<>> => f[1] # "_" /\ f[Len(f)] # "_"
    /\ Len(f) <= MaxLength

(* C7: make_safe_filename returns, for every prompt, a lowercase string over
   a-z, 0-9 and underscore, with runs of other characters collapsed to one
   underscore, no leading or trailing underscore, at most 50 characters *)
C7_FilenameIsSafe ==
    (pc \in {"done", "crashed"} /\ filename # None) => IsSafeFilename(filename)

====
